---- MODULE Spec2Model ----
(***************************************************************************)
(* Model of the resume screening pipeline (resume_screener.py) and of the  *)
(* keyword matcher it calls (keyword_matcher.py).                          *)
(*                                                                         *)
(* Encodings.                                                              *)
(*  - A Python value that may be None is a sequence of length <= 1:        *)
(*    <<>> is None, <<v>> is the value v.                                  *)
(*  - A text is the sequence of its tokens (words and punctuation marks);  *)
(*    the empty string is <<>>.  Every word of the vocabulary is made of   *)
(*    word characters only, so a regular-expression search for             *)
(*    \b<processed keyword>\b in the space-joined processed resume finds   *)
(*    exactly the contiguous occurrences of the keyword's token sequence.  *)
(*  - A keyword is the sequence of the tokens str.split() gives: <<>> is   *)
(*    an empty or blank string, one token an atomic term, more a phrase.   *)
(***************************************************************************)
EXTENDS Integers, Sequences, FiniteSets, TLC

VARIABLES
    pc,            \* position of the current run of screen
    args,          \* the arguments of screen
    nlp_fault,     \* whether (and with which message) the spaCy pipeline raises
    fault_at,      \* where it raises: 0 on the resume text, i on the i-th keyword
    state,         \* the ResumeScreeningState carried through the graph
    calls,         \* the model calls of the current run: <<prompt, response>> records
    result,        \* what the current run of screen returned (<<>> before it returns)
    prev_calls,    \* the model calls of the previous run
    prev_result,   \* what the previous run of screen returned
    runs,          \* number of runs of screen started
    trace,         \* the graph nodes the current run has completed, in order
    uploaded_files, \* the batch: the names of the uploaded files
    idx,           \* number of files of the batch processed so far
    results,       \* the result records of the batch
    found_count,   \* input of the verdict rule: len(keywords_found)
    total_count,   \* input of the verdict rule: len(keywords)
    verdict        \* output of the verdict rule

vars == <<pc, args, nlp_fault, fault_at, state, calls, result, prev_calls,
          prev_result, runs, trace, uploaded_files, idx, results,
          found_count, total_count, verdict>>

pipeline_vars == <<pc, args, nlp_fault, fault_at, state, calls, result,
                   prev_calls, prev_result, runs, trace>>

batch_vars == <<uploaded_files, idx, results>>

verdict_vars == <<found_count, total_count, verdict>>

----------------------------------------------------------------------------
(* Bounds *)

MaxKeywords == 2      \* longest keyword list drawn from the small keyword set
MaxRuns == 2          \* runs of screen on the same screener
MaxTotal == 10        \* largest keyword count fed to the verdict rule
MaxBatch == 3         \* most files uploaded in one batch

----------------------------------------------------------------------------
(* Option values *)

None == <<>>
Some(v) == <<v>>
IsNone(o) == o = <<>>
Get(o) == o[1]

Range(s) == {s[i] : i \in 1..Len(s)}

----------------------------------------------------------------------------
(* Text: what str.lower() and the spaCy pipeline do to the vocabulary *)

Lower(w) ==
    CASE w = "Python" -> "python"
      [] w = "Tests" -> "tests"
      [] w = "The" -> "the"
      [] OTHER -> w

Lemma(w) ==
    CASE w = "tests" -> "test"
      [] w = "running" -> "run"
      [] w = "ran" -> "run"
      [] OTHER -> w

IsStop(w) == w \in {"the"}

IsPunct(w) == w \in {","}

EMPTY_PROCESSED_STRING == <<"EMPTY_PROCESSED_STRING">>

RECURSIVE CleanTokens(_)
CleanTokens(text) ==
    IF text = <<>> THEN <<>>
    ELSE LET w == Lower(Head(text))
             rest == CleanTokens(Tail(text))
         IN IF IsStop(w) \/ IsPunct(w) THEN rest ELSE <<Lemma(w)>> \o rest

preprocess_text(text) ==
    LET clean_tokens == CleanTokens(text)
    IN IF clean_tokens # <<>> THEN clean_tokens ELSE EMPTY_PROCESSED_STRING

LowerStrip(keyword) == [i \in 1..Len(keyword) |-> Lower(keyword[i])]

ProcessKeyword(original_keyword) ==
    IF Len(original_keyword) > 1
    THEN preprocess_text(original_keyword)
    ELSE LowerStrip(original_keyword)

\* re.search(r'\b' + re.escape(processed_keyword) + r'\b', processed_resume)
Search(processed_keyword, processed_resume) ==
    \E i \in 0..(Len(processed_resume) - Len(processed_keyword)) :
        \A j \in 1..Len(processed_keyword) :
            processed_resume[i + j] = processed_keyword[j]

KeywordHit(original_keyword, processed_resume) ==
    LET processed_keyword == ProcessKeyword(original_keyword)
    IN /\ processed_keyword # <<>>
       /\ processed_keyword # EMPTY_PROCESSED_STRING
       /\ Search(processed_keyword, processed_resume)

\* keywords_found.append(processed_keyword) in place of the original keyword
RECURSIVE KeywordsFoundProcessed(_, _)
KeywordsFoundProcessed(keywords, processed_resume) ==
    IF keywords = <<>> THEN <<>>
    ELSE LET rest == KeywordsFoundProcessed(Tail(keywords), processed_resume)
         IN IF KeywordHit(Head(keywords), processed_resume)
            THEN <<ProcessKeyword(Head(keywords))>> \o rest
            ELSE rest

\* keywords_found.insert(0, original_keyword): hits in reverse order
RECURSIVE KeywordsFoundReversed(_, _)
KeywordsFoundReversed(keywords, processed_resume) ==
    IF keywords = <<>> THEN <<>>
    ELSE LET rest == KeywordsFoundReversed(Tail(keywords), processed_resume)
         IN IF KeywordHit(Head(keywords), processed_resume)
            THEN rest \o <<Head(keywords)>>
            ELSE rest

RECURSIVE KeywordsFound(_, _)
KeywordsFound(keywords, processed_resume) ==
    IF keywords = <<>> THEN <<>>
    ELSE LET rest == KeywordsFound(Tail(keywords), processed_resume)
         IN IF KeywordHit(Head(keywords), processed_resume)
            THEN <<Head(keywords)>> \o rest
            ELSE rest

FAIL == "FAIL - No keywords matched"
WEAK == "WEAK - Low keyword match rate"
STRONG == "STRONG - High keyword match rate"
MODERATE == "MODERATE - Moderate keyword match rate"

\* "<=" in place of "<" at the 30% threshold
InitialDecisionInclusive(found, total) ==
    IF found = 0 THEN FAIL
    ELSE IF 10 * found <= 3 * total THEN WEAK
    ELSE IF 10 * found >= 6 * total THEN STRONG
    ELSE MODERATE

\* len(found) < len(keywords) * 0.3 and len(found) >= len(keywords) * 0.6:
\* the double products agree with the exact ones for every count below 2000.
InitialDecision(found, total) ==
    IF found = 0 THEN FAIL
    ELSE IF 10 * found < 3 * total THEN WEAK
    ELSE IF 10 * found >= 6 * total THEN STRONG
    ELSE MODERATE

match_keywords(resume_text, keywords) ==
    LET keywords_found == KeywordsFound(keywords, preprocess_text(resume_text))
    IN [keywords_found |-> keywords_found,
        initial_decision |-> InitialDecision(Len(keywords_found), Len(keywords))]

----------------------------------------------------------------------------
(* The external model: what generate_content does, and the text it returns *)

Score(t, n) == [t |-> t, n |-> n]

\* overall_score values a response can carry.  "float" holds tenths (857 is
\* 85.7); "str_int" is a string holding an integer literal ("85").
RawScores ==
    {Score("absent", 0), Score("null", 0), Score("str_bad", 0),
     Score("str_int", 85), Score("float", 857), Score("inf", 0),
     Score("int", 0), Score("int", 85), Score("int", 100),
     Score("int", 150), Score("int", -5)}

Raise(msg) ==
    [kind |-> "raise", msg |-> msg, decision |-> None,
     evaluation_summary |-> None, criteria |-> "absent", met |-> None,
     missing |-> None, score |-> Score("absent", 0)]

NonJsonText ==
    [kind |-> "text", msg |-> "", decision |-> None,
     evaluation_summary |-> None, criteria |-> "absent", met |-> None,
     missing |-> None, score |-> Score("absent", 0)]

JsonNonObject ==
    [kind |-> "json_nonobject", msg |-> "", decision |-> None,
     evaluation_summary |-> None, criteria |-> "absent", met |-> None,
     missing |-> None, score |-> Score("absent", 0)]

JsonObject(decision, summary, criteria, met, missing, score) ==
    [kind |-> "json_object", msg |-> "", decision |-> decision,
     evaluation_summary |-> summary, criteria |-> criteria, met |-> met,
     missing |-> missing, score |-> score]

GoodSummary == Some("Strong backend profile")
GoodMet == Some(<<"python">>)
GoodMissing == Some(<<"kubernetes">>)

\* The behaviours of one model call: it raises (a TimeoutError() has the empty
\* message), or returns text that is not JSON, JSON that is not an object, or
\* an object with any of the four keys absent or ill-typed.
ModelResponses ==
    {Raise(""), Raise("ModelUnavailable"), NonJsonText, JsonNonObject}
    \cup {JsonObject(d, GoodSummary, "object", GoodMet, GoodMissing, Score("int", 85)) :
            d \in {None, Some("Shortlisted"), Some("Not Shortlisted"), Some("Maybe")}}
    \cup {JsonObject(Some("Shortlisted"), GoodSummary, "object", GoodMet, GoodMissing, sc) :
            sc \in RawScores}
    \cup {JsonObject(Some("Not Shortlisted"), None, "object", GoodMet, GoodMissing, Score("int", 85)),
          JsonObject(Some("Shortlisted"), GoodSummary, "absent", None, None, Score("int", 85)),
          JsonObject(Some("Shortlisted"), GoodSummary, "nonobject", None, None, Score("int", 85)),
          JsonObject(Some("Shortlisted"), GoodSummary, "object", None, GoodMissing, Score("int", 85)),
          JsonObject(Some("Not Shortlisted"), GoodSummary, "object", GoodMet, None, Score("null", 0))}

----------------------------------------------------------------------------
(* evaluate_candidate_node: parsing the response *)

Outcome(raised, decision, summary, met, missing, score) ==
    [raised |-> raised, decision |-> decision, evaluation_summary |-> summary,
     requirements_met |-> met, requirements_missing |-> missing,
     overall_score |-> score]

Raised(msg) == Outcome(Some(msg), "", "", <<>>, <<>>, None)

OrDefault(o, default) == IF IsNone(o) THEN default ELSE Get(o)

\* int(overall_score), with ValueError and TypeError caught
CoerceScore(raw) ==
    CASE raw.t \in {"int", "str_int"} -> Some(raw.n)
      [] raw.t = "float" -> Some(raw.n \div 10)
      [] OTHER -> None

\* json.JSONDecodeError left to the outer handler
JsonFallbackUncaught == Raised("Expecting value: line 1 column 1 (char 0)")

JsonFallback ==
    Outcome(None, "Not Shortlisted",
            "Failed to get a structured evaluation from the AI model.",
            <<>>, <<>>, None)

\* The whole-record fallback applied as soon as one of the four keys is absent
ParseObjectAllOrNothing(response) ==
    IF response.criteria = "nonobject"
    THEN Raised("'str' object has no attribute 'get'")
    ELSE IF response.score.t = "inf"
    THEN Raised("cannot convert float infinity to integer")
    ELSE IF \/ IsNone(response.decision)
            \/ IsNone(response.evaluation_summary)
            \/ response.criteria = "absent"
            \/ response.score.t = "absent"
    THEN JsonFallback
    ELSE Outcome(None, Get(response.decision), Get(response.evaluation_summary),
                 OrDefault(response.met, <<>>), OrDefault(response.missing, <<>>),
                 CoerceScore(response.score))

ParseObject(response) ==
    IF response.criteria = "nonobject"
    THEN Raised("'str' object has no attribute 'get'")
    ELSE IF response.score.t = "inf"
    THEN Raised("cannot convert float infinity to integer")
    ELSE Outcome(None,
                 OrDefault(response.decision, "Error: No Decision Provided"),
                 OrDefault(response.evaluation_summary, "Error: No summary provided"),
                 OrDefault(response.met, <<>>),
                 OrDefault(response.missing, <<>>),
                 CoerceScore(response.score))

ParseResponse(response) ==
    CASE response.kind = "raise" -> Raised(response.msg)
      [] response.kind = "text" -> JsonFallback
      [] response.kind = "json_nonobject" ->
            Raised("'list' object has no attribute 'get'")
      [] OTHER -> ParseObject(response)

----------------------------------------------------------------------------
(* Inputs *)

KeywordSet == {<<>>, <<"Python">>, <<"tests">>, <<"running", "tests">>}

KeywordLists == UNION {[1..k -> KeywordSet] : k \in 0..MaxKeywords}

ResumeTexts ==
    {<<>>, <<",">>, <<"python", "test">>,
     <<"The", "Python", ",", "ran", "Tests">>}

JobDescriptions == {<<"Python", "developer">>}

Filenames == {"cv.pdf"}

Args ==
    [all_keywords : {None} \cup {Some(k) : k \in KeywordLists},
     resume_text : ResumeTexts,
     job_description_text : JobDescriptions,
     resume_filename : Filenames]

\* The spaCy pipeline is deterministic: whether it raises on the texts of this
\* request, and with which message, is fixed for the request.
NlpFaults == {None, Some(""), Some("nlp failure")}

----------------------------------------------------------------------------
(* ResumeScreener *)

\* Python truthiness of a string
Truthy(str) == str # ""

NoneHasNoLen == "object of type 'NoneType' has no len()"
NoneNotIterable == "'NoneType' object is not iterable"

ResumeScreeningState(a) ==
    [all_keywords |-> a.all_keywords,
     resume_text |-> a.resume_text,
     job_description_text |-> a.job_description_text,
     matching_keywords |-> <<>>,
     initial_decision |-> "",
     decision |-> "",
     evaluation_summary |-> "",
     requirements_met |-> <<>>,
     requirements_missing |-> <<>>,
     overall_score |-> None,
     error |-> ""]

\* A state object kept across runs: the keyword list of the previous run is
\* extended instead of replaced.
initial_state_kept(a) ==
    [ResumeScreeningState(a) EXCEPT !.all_keywords =
        IF IsNone(a.all_keywords) \/ IsNone(state.all_keywords)
        THEN a.all_keywords
        ELSE Some(Get(state.all_keywords) \o Get(a.all_keywords))]

\* The initial_state screen hands to graph.invoke
initial_state(a) == ResumeScreeningState(a)

\* preprocess_text is called on the resume text, then on each phrase keyword
\* in turn: the i-th keyword is reached, and raises, only if it is a phrase.
RaisesAtKeyword(keywords, fault, at) ==
    /\ ~IsNone(fault)
    /\ at \in 1..Len(keywords)
    /\ Len(keywords[at]) > 1

\* The keywords found so far published together with the error
MatchKeywordsUpdatePartial(st, fault, at) ==
    IF Truthy(st.error) THEN st
    ELSE IF ~IsNone(fault) /\ at = 0 THEN [st EXCEPT !.error = Get(fault)]
    ELSE IF IsNone(st.all_keywords) THEN [st EXCEPT !.error = NoneNotIterable]
    ELSE IF RaisesAtKeyword(Get(st.all_keywords), fault, at)
    THEN [st EXCEPT !.error = Get(fault),
                    !.matching_keywords =
                        KeywordsFound(SubSeq(Get(st.all_keywords), 1, at - 1),
                                      preprocess_text(st.resume_text))]
    ELSE LET m == match_keywords(st.resume_text, Get(st.all_keywords))
         IN [st EXCEPT !.matching_keywords = m.keywords_found,
                       !.initial_decision = m.initial_decision]

\* The update match_keywords_node returns, applied to the state
MatchKeywordsUpdate(st, fault, at) ==
    IF Truthy(st.error) THEN st
    ELSE IF ~IsNone(fault) /\ at = 0 THEN [st EXCEPT !.error = Get(fault)]
    ELSE IF IsNone(st.all_keywords) THEN [st EXCEPT !.error = NoneNotIterable]
    ELSE IF RaisesAtKeyword(Get(st.all_keywords), fault, at)
    THEN [st EXCEPT !.error = Get(fault)]
    ELSE LET m == match_keywords(st.resume_text, Get(st.all_keywords))
         IN [st EXCEPT !.matching_keywords = m.keywords_found,
                       !.initial_decision = m.initial_decision]

EvaluationPrompt(st) ==
    [total |-> Len(Get(st.all_keywords)),
     matching_keywords |-> st.matching_keywords,
     initial_decision |-> st.initial_decision,
     resume_text |-> st.resume_text,
     job_description_text |-> st.job_description_text]

\* The update evaluate_candidate_node returns for a model response, applied
\* to the state
EvaluateUpdate(st, response) ==
    LET out == ParseResponse(response)
    IN IF ~IsNone(out.raised)
       THEN [st EXCEPT !.error = Get(out.raised)]
       ELSE [st EXCEPT !.decision = out.decision,
                       !.evaluation_summary = out.evaluation_summary,
                       !.requirements_met = out.requirements_met,
                       !.requirements_missing = out.requirements_missing,
                       !.overall_score = out.overall_score]

ErrorResult(a, message) ==
    [decision |-> "Error",
     evaluation_summary |-> message,
     overall_score |-> None,
     matching_keywords |-> <<>>,
     requirements_met |-> <<>>,
     requirements_missing |-> <<>>,
     initial_decision |-> "ERROR",
     total_keywords |-> Len(Get(a.all_keywords)),
     resume_filename |-> a.resume_filename]

FinalResult(a, final_state) ==
    [decision |-> final_state.decision,
     matching_keywords |-> final_state.matching_keywords,
     evaluation_summary |-> final_state.evaluation_summary,
     requirements_met |-> final_state.requirements_met,
     requirements_missing |-> final_state.requirements_missing,
     overall_score |-> final_state.overall_score,
     initial_decision |-> final_state.initial_decision,
     total_keywords |-> Len(Get(final_state.all_keywords)),
     resume_filename |-> a.resume_filename]

\* What screen does with the final state: <<>> when an exception leaves
\* screen, <<result>> when it returns.  The except handler evaluates
\* len(all_keywords), which raises for None.
ScreenOutcome(a, final_state) ==
    IF IsNone(a.all_keywords) THEN None
    ELSE IF Truthy(final_state.error)
    THEN Some(ErrorResult(a, final_state.error))
    ELSE Some(FinalResult(a, final_state))

Done == {"returned", "raised"}

\* add_edge(START, "evaluate_candidate"): the graph entered at the second node
EntryNodeEvaluate == "evaluate_candidate"

\* add_edge(START, "match_keywords")
EntryNode == "match_keywords"

\* add_edge("match_keywords", "evaluate_candidate") and
\* add_edge("evaluate_candidate", END)
NextNode(node) ==
    IF node = "match_keywords" THEN "evaluate_candidate" ELSE "END"

\* screen, up to graph.invoke
Screen ==
    /\ pc \in {"idle"} \cup Done
    /\ runs < MaxRuns
    /\ runs' = runs + 1
    /\ prev_result' = result
    /\ prev_calls' = calls
    /\ result' = None
    /\ calls' = <<>>
    /\ trace' = <<>>
    /\ state' = initial_state(args)
    /\ pc' = EntryNode
    /\ UNCHANGED <<args, nlp_fault, fault_at, verdict_vars, batch_vars>>

match_keywords_node ==
    /\ pc = "match_keywords"
    /\ state' = MatchKeywordsUpdate(state, nlp_fault, fault_at)
    /\ trace' = Append(trace, "match_keywords")
    /\ pc' = NextNode("match_keywords")
    /\ UNCHANGED <<args, nlp_fault, fault_at, calls, result, prev_calls,
                   prev_result, runs, verdict_vars, batch_vars>>

\* The node reaches self.model.generate_content
CallsModel(st) == ~Truthy(st.error) /\ ~IsNone(st.all_keywords)

evaluate_candidate_node ==
    /\ pc = "evaluate_candidate"
    /\ pc' = NextNode("evaluate_candidate")
    /\ trace' = Append(trace, "evaluate_candidate")
    /\ IF Truthy(state.error)
       THEN UNCHANGED <<state, calls>>
       ELSE IF IsNone(state.all_keywords)
       THEN /\ state' = [state EXCEPT !.error = NoneHasNoLen]
            /\ UNCHANGED calls
       ELSE \E response \in ModelResponses :
                /\ calls' = Append(calls, [prompt |-> EvaluationPrompt(state),
                                           response |-> response])
                /\ state' = EvaluateUpdate(state, response)
    /\ UNCHANGED <<args, nlp_fault, fault_at, result, prev_calls, prev_result,
                   runs, verdict_vars, batch_vars>>

\* generate_content is called with no timeout and no request_options: when the
\* model never answers, the node stays inside the call.
evaluate_candidate_blocked ==
    /\ pc = "evaluate_candidate"
    /\ CallsModel(state)
    /\ pc' = "blocked"
    /\ UNCHANGED <<args, nlp_fault, fault_at, state, calls, result, prev_calls,
                   prev_result, runs, trace, verdict_vars, batch_vars>>

\* screen, from the return of graph.invoke
ScreenReturn ==
    /\ pc = "END"
    /\ result' = ScreenOutcome(args, state)
    /\ pc' = IF IsNone(result') THEN "raised" ELSE "returned"
    /\ UNCHANGED <<args, nlp_fault, fault_at, state, calls, prev_calls,
                   prev_result, runs, trace, verdict_vars, batch_vars>>

NoBatch ==
    /\ uploaded_files = <<>>
    /\ idx = 0
    /\ results = <<>>

NoVerdict ==
    /\ found_count = 0
    /\ total_count = 0
    /\ verdict = ""

Init ==
    /\ pc = "idle"
    /\ args \in Args
    /\ nlp_fault \in NlpFaults
    /\ fault_at \in (IF nlp_fault = Some("nlp failure") THEN 0..MaxKeywords ELSE {0})
    /\ state = ResumeScreeningState(args)
    /\ calls = <<>>
    /\ result = None
    /\ prev_calls = <<>>
    /\ prev_result = None
    /\ runs = 0
    /\ trace = <<>>
    /\ NoBatch
    /\ NoVerdict

Next ==
    \/ Screen
    \/ match_keywords_node
    \/ evaluate_candidate_node
    \/ evaluate_candidate_blocked
    \/ ScreenReturn

Spec == Init /\ [][Next]_vars

\* The interpreter runs every step of screen that can run
LiveSpec == Spec /\ WF_vars(Next)

----------------------------------------------------------------------------
(* The verdict rule of match_keywords on its own *)

DefaultArgs ==
    [all_keywords |-> Some(<<>>), resume_text |-> <<>>,
     job_description_text |-> <<"Python", "developer">>,
     resume_filename |-> "cv.pdf"]

NoRun ==
    /\ pc = "idle"
    /\ args = DefaultArgs
    /\ state = ResumeScreeningState(args)
    /\ calls = <<>>
    /\ result = None
    /\ prev_calls = <<>>
    /\ prev_result = None
    /\ runs = 0
    /\ trace = <<>>

InitVerdict ==
    /\ NoRun
    /\ nlp_fault = None
    /\ fault_at = 0
    /\ NoBatch
    /\ total_count \in 0..MaxTotal
    /\ found_count \in 0..total_count
    /\ verdict = ""

Classify ==
    /\ verdict = ""
    /\ verdict' = InitialDecision(found_count, total_count)
    /\ UNCHANGED <<pipeline_vars, batch_vars, found_count, total_count>>

NextVerdict == Classify

SpecVerdict == InitVerdict /\ [][NextVerdict]_vars

----------------------------------------------------------------------------
(* The batch loop of main: one screening per uploaded file *)

\* screen as one call: the two nodes in order, then the result or the
\* exception (<<>>)
ScreenCall(a, fault, at, response) ==
    LET matched == MatchKeywordsUpdate(initial_state(a), fault, at)
        final == IF Truthy(matched.error) THEN matched
                 ELSE IF IsNone(matched.all_keywords)
                 THEN [matched EXCEPT !.error = NoneHasNoLen]
                 ELSE EvaluateUpdate(matched, response)
    IN ScreenOutcome(a, final)

\* st.file_uploader accepts pdf and docx only
UploadNames == <<"a.pdf", "b.docx", "c.pdf", "d.docx", "e.pdf">>

Extension(name) == IF name \in {"b.docx", "d.docx"} THEN "docx" ELSE "pdf"

\* extract_text_from_pdf and extract_text_from_docx return the text (<<text>>)
\* or raise (<<>>)
Extractions == {None} \cup {Some(t) : t \in {<<>>, <<"The", "Python", ",", "ran", "Tests">>}}

ExtractionError(name) ==
    IF Extension(name) = "pdf"
    THEN "Error processing file: No /Root object! - Is this really a PDF?"
    ELSE "Error processing file: File is not a zip file"

\* main builds all_keywords with list(set(...)), and screens only when the
\* keyword list is not empty
BatchKeywords == {<<<<"Python">>>>, <<<<"Python">>, <<"running", "tests">>>>}

BatchResponses ==
    {Raise(""), Raise("ModelUnavailable"), NonJsonText, JsonNonObject,
     JsonObject(Some("Shortlisted"), GoodSummary, "object", GoodMet, GoodMissing,
                Score("int", 85))}

\* The record the except branch of the loop appends
FileErrorRecord(a, summary) ==
    [decision |-> "Error",
     matching_keywords |-> <<>>,
     evaluation_summary |-> summary,
     requirements_met |-> <<>>,
     requirements_missing |-> <<>>,
     overall_score |-> None,
     initial_decision |-> "ERROR",
     total_keywords |-> Len(Get(a.all_keywords)),
     resume_filename |-> a.resume_filename]

\* What one iteration of the loop makes of results: the result of screen, or
\* the error record when extraction or screen raised
FileOutcome(a, extraction, screened) ==
    IF IsNone(extraction)
    THEN FileErrorRecord(a, ExtractionError(a.resume_filename))
    ELSE IF IsNone(screened)
    THEN FileErrorRecord(a, "Error processing file: object of type 'NoneType' has no len()")
    ELSE Get(screened)

\* The except branch reports the error and appends nothing
ResultsAfterFileReportOnly(rs, a, extraction, screened) ==
    IF IsNone(extraction) \/ IsNone(screened) THEN rs
    ELSE Append(rs, Get(screened))

ResultsAfterFile(rs, a, extraction, screened) ==
    Append(rs, FileOutcome(a, extraction, screened))

FileArgs(name, text) ==
    [all_keywords |-> args.all_keywords,
     resume_text |-> text,
     job_description_text |-> args.job_description_text,
     resume_filename |-> name]

\* One iteration of "for idx, uploaded_file in enumerate(uploaded_files)"
ProcessFile ==
    /\ idx < Len(uploaded_files)
    /\ \E extraction \in Extractions, response \in BatchResponses :
        LET name == uploaded_files[idx + 1]
            a == FileArgs(name, IF IsNone(extraction) THEN <<>> ELSE Get(extraction))
            screened == IF IsNone(extraction) THEN None
                        ELSE ScreenCall(a, nlp_fault, fault_at, response)
        IN results' = ResultsAfterFile(results, a, extraction, screened)
    /\ idx' = idx + 1
    /\ UNCHANGED <<pipeline_vars, uploaded_files, verdict_vars>>

InitBatch ==
    /\ pc = "idle"
    /\ args \in [all_keywords : {Some(k) : k \in BatchKeywords},
                 resume_text : {<<>>},
                 job_description_text : JobDescriptions,
                 resume_filename : Filenames]
    /\ nlp_fault \in NlpFaults
    /\ fault_at = 0
    /\ state = ResumeScreeningState(args)
    /\ calls = <<>>
    /\ result = None
    /\ prev_calls = <<>>
    /\ prev_result = None
    /\ runs = 0
    /\ trace = <<>>
    /\ uploaded_files \in {SubSeq(UploadNames, 1, k) : k \in 1..MaxBatch}
    /\ idx = 0
    /\ results = <<>>
    /\ NoVerdict

NextBatch == ProcessFile

SpecBatch == InitBatch /\ [][NextBatch]_vars

----------------------------------------------------------------------------
(* Properties *)

Returned == pc = "returned"
Res == Get(result)
AfterEvaluate == pc \in {"END"} \cup Done
ModelCalled == calls # <<>>
Response == calls[1].response

Decisions == {"Shortlisted", "Not Shortlisted", "Error"}

\* C1: every run of screen ends by returning a ScreeningResult; no exception
\* leaves screen, whatever the keyword set, the stages or the model do.
ScreenNeverRaises == pc # "raised"

\* C2: the decision of every returned result is Shortlisted, Not Shortlisted
\* or Error.
DecisionInEnum == Returned => Res.decision \in Decisions

InputError ==
    \/ IsNone(args.all_keywords)
    \/ args.all_keywords = Some(<<>>)
    \/ args.resume_text = <<>>

\* C3: a run with an empty or missing keyword set or an empty resume text
\* returns (never raises) a result whose decision is Error.
InputErrorGivesError ==
    (InputError /\ pc \in Done) => (Returned /\ Res.decision = "Error")

ModelRaised == ModelCalled /\ Response.kind = "raise"

\* C4: when the model call raises, whatever the exception, screen returns
\* decision Error, overall_score None and a non-empty evaluation_summary.
ModelRaiseGivesError ==
    (ModelRaised /\ pc \in Done) =>
        /\ Returned
        /\ Res.decision = "Error"
        /\ Res.overall_score = None
        /\ Res.evaluation_summary # ""

NonJsonReceived == ModelCalled /\ Response.kind = "text"

\* C5: when the model returns text that is not JSON, evaluate_candidate_node
\* ends with no error set and screen returns Not Shortlisted, overall_score
\* None and empty requirement lists.
NonJsonGivesNotShortlisted ==
    (NonJsonReceived /\ AfterEvaluate) =>
        /\ state.error = ""
        /\ state.decision = "Not Shortlisted"
        /\ pc \in Done =>
            /\ Returned
            /\ Res.decision = "Not Shortlisted"
            /\ Res.overall_score = None
            /\ Res.requirements_met = <<>>
            /\ Res.requirements_missing = <<>>

NonJsonReturned == Returned /\ NonJsonReceived

KeyAbsent(response) ==
    /\ response.kind = "json_object"
    /\ \/ IsNone(response.decision)
       \/ IsNone(response.evaluation_summary)
       \/ response.criteria = "absent"
       \/ response.score.t = "absent"

SchemaError == ModelCalled /\ (Response.kind = "json_nonobject" \/ KeyAbsent(Response))

IsFallback(st) ==
    /\ st.error = ""
    /\ st.decision = "Not Shortlisted"
    /\ st.evaluation_summary = "Failed to get a structured evaluation from the AI model."
    /\ st.requirements_met = <<>>
    /\ st.requirements_missing = <<>>
    /\ st.overall_score = None

WellTyped(response) == response.criteria # "nonobject" /\ response.score.t # "inf"

ScoreInRange ==
    Returned => (Res.overall_score = None \/ Get(Res.overall_score) \in 0..100)

KeywordRange ==
    IF IsNone(args.all_keywords) THEN {} ELSE Range(Get(args.all_keywords))

\* C8: every matched keyword, in the state after match_keywords_node and in
\* every returned result, is an element of the keyword list as supplied.
MatchedSubsetOfKeywords ==
    /\ Range(state.matching_keywords) \subseteq KeywordRange
    /\ Returned => Range(Res.matching_keywords) \subseteq KeywordRange

MixedCaseKeywordMatched ==
    /\ Returned
    /\ \E k \in Range(Res.matching_keywords) : ProcessKeyword(k) # k

\* C9: the verdict is FAIL for no match (also for no keyword), WEAK below 30%,
\* MODERATE from 30% and below 60%, STRONG from 60%; of 10 keywords, 0 matches
\* give FAIL, 2 WEAK, 3 and 5 MODERATE, 6 STRONG.
VerdictThresholds ==
    verdict # "" =>
        /\ found_count = 0 => verdict = FAIL
        /\ (found_count > 0 /\ 10 * found_count < 3 * total_count) => verdict = WEAK
        /\ (found_count > 0 /\ 3 * total_count <= 10 * found_count
                /\ 10 * found_count < 6 * total_count) => verdict = MODERATE
        /\ (found_count > 0 /\ 6 * total_count <= 10 * found_count) => verdict = STRONG
        /\ total_count = 10 =>
            /\ found_count = 2 => verdict = WEAK
            /\ found_count \in {3, 5} => verdict = MODERATE
            /\ found_count = 6 => verdict = STRONG

ThreeOfTenClassified ==
    verdict = MODERATE /\ found_count = 3 /\ total_count = 10

\* The model answered the same prompt the same way in the last two runs
DeterministicStub ==
    \A i \in 1..Len(calls) : \A j \in 1..Len(prev_calls) :
        calls[i].prompt = prev_calls[j].prompt =>
            calls[i].response = prev_calls[j].response

\* C10: two runs of screen on the same arguments, with a model that answers
\* the same prompt the same way, return equal results.
RepeatedRunSameResult ==
    (runs >= 2 /\ pc \in Done /\ DeterministicStub) => result = prev_result

SecondRunReturned ==
    /\ runs >= 2
    /\ Returned
    /\ ModelCalled
    /\ DeterministicStub
    /\ Res.total_keywords > 0
    /\ result = prev_result

MatchFailed ==
    \/ ~IsNone(nlp_fault) /\ fault_at = 0
    \/ IsNone(args.all_keywords)
    \/ RaisesAtKeyword(Get(args.all_keywords), nlp_fault, fault_at)

\* evaluate_candidate_node ended in its except branch
EvaluateFailed == ModelCalled /\ ~IsNone(ParseResponse(Response).raised)

\* C12: when a stage has set the error, the returned result has decision
\* Error, no matched keywords, empty requirement lists and overall_score None.
ErrorRunGivesErrorResult ==
    (Returned /\ (MatchFailed \/ EvaluateFailed)) =>
        /\ Res.decision = "Error"
        /\ Res.matching_keywords = <<>>
        /\ Res.requirements_met = <<>>
        /\ Res.requirements_missing = <<>>
        /\ Res.overall_score = None

\* C13: every run that reaches evaluate_candidate ends, also when the model
\* never answers.
RunTerminates == (pc = "evaluate_candidate") ~> (pc \in Done)

\* C14: the model is called at most once in a run, and not at all when
\* match_keywords failed.
NoCallAfterMatchFailure ==
    /\ Len(calls) <= 1
    /\ MatchFailed => calls = <<>>

\* C15: the nodes of a run complete in the order match_keywords,
\* evaluate_candidate, each once, and the prompt evaluate_candidate builds
\* holds the matched keywords and the verdict match_keywords computed.
StagesInOrder ==
    /\ pc = "match_keywords" => trace = <<>>
    /\ pc \in {"evaluate_candidate", "blocked"} => trace = <<"match_keywords">>
    /\ pc \in {"END"} \cup Done => trace = <<"match_keywords", "evaluate_candidate">>
    /\ (ModelCalled /\ ~MatchFailed) =>
        LET m == match_keywords(args.resume_text, Get(args.all_keywords))
        IN /\ calls[1].prompt.matching_keywords = m.keywords_found
           /\ calls[1].prompt.initial_decision = m.initial_decision

PromptCarriesMatches ==
    /\ Returned
    /\ ModelCalled
    /\ calls[1].prompt.matching_keywords # <<>>
    /\ calls[1].prompt.initial_decision = STRONG

\* C16: when match_keywords fails, the state after match_keywords_node is the
\* initial state of the run except for error.
MatchFailureOnlySetsError ==
    (pc = "evaluate_candidate" /\ MatchFailed) =>
        state = [ResumeScreeningState(args) EXCEPT !.error = state.error]

FailedAfterAHit ==
    /\ pc = "evaluate_candidate"
    /\ ~IsNone(args.all_keywords)
    /\ fault_at = 2
    /\ RaisesAtKeyword(Get(args.all_keywords), nlp_fault, fault_at)
    /\ KeywordHit(Get(args.all_keywords)[1], preprocess_text(args.resume_text))
    /\ Truthy(state.error)

ScoreUnconvertible(response) ==
    /\ response.kind = "json_object"
    /\ ~IsNone(response.decision)
    /\ ~IsNone(response.evaluation_summary)
    /\ response.criteria = "object"
    /\ response.score.t \in {"absent", "null", "str_bad", "inf"}

\* C17: when the response has decision, summary and criteria but a score that
\* cannot be converted to an integer, the node succeeds: overall_score is
\* None, the other fields come from the response and no error is set.
BadScoreKeepsRest ==
    (AfterEvaluate /\ ModelCalled /\ ScoreUnconvertible(Response)) =>
        /\ state.error = ""
        /\ state.overall_score = None
        /\ state.decision = Get(Response.decision)
        /\ state.evaluation_summary = Get(Response.evaluation_summary)
        /\ state.requirements_met = OrDefault(Response.met, <<>>)
        /\ state.requirements_missing = OrDefault(Response.missing, <<>>)

RECURSIVE IsSubsequence(_, _)
IsSubsequence(a, b) ==
    IF a = <<>> THEN TRUE
    ELSE IF b = <<>> THEN FALSE
    ELSE IF Head(a) = Head(b) THEN IsSubsequence(Tail(a), Tail(b))
    ELSE IsSubsequence(a, Tail(b))

Count(seq, x) == Cardinality({i \in 1..Len(seq) : seq[i] = x})

\* C18: the matched keywords are a subsequence of the keyword list, a keyword
\* that is found appears as often as it is listed, and blank keywords are
\* skipped without an error.
MatchedIsSubsequence ==
    (pc = "evaluate_candidate" /\ ~MatchFailed) =>
        LET K == Get(args.all_keywords)
            matched == state.matching_keywords
        IN /\ IsSubsequence(matched, K)
           /\ \A k \in Range(K) : Count(matched, k) \in {0, Count(K, k)}
           /\ <<>> \notin Range(matched)
           /\ state.error = ""
           /\ state.initial_decision # ""

TwoHitsInOrder ==
    /\ pc = "evaluate_candidate"
    /\ ~MatchFailed
    /\ Len(state.matching_keywords) = 2
    /\ state.matching_keywords[1] # state.matching_keywords[2]

\* C19: an atomic keyword is matched exactly when some word of the resume
\* text has the same lowercased form.
AtomicMatchIsExactForm ==
    (pc = "evaluate_candidate" /\ ~MatchFailed) =>
        \A k \in Range(Get(args.all_keywords)) :
            Len(k) = 1 =>
                (k \in Range(state.matching_keywords)
                    <=> \E j \in 1..Len(args.resume_text) :
                            Lower(args.resume_text[j]) = Lower(k[1]))

====
